---- MODULE Spec2Model ----
(***************************************************************************)
(* Student Management API (src/myapi.py): an in-memory dict of Student     *)
(* records behind six FastAPI endpoints.  One action per HTTP request;     *)
(* each action is the framework's request validation followed by the       *)
(* handler's body.                                                         *)
(*                                                                         *)
(* Strings that the program inspects (names, class years) are sequences    *)
(* of one-character strings, so that len(), lower() and the regular        *)
(* expression are computed.  Identifiers are only compared, so they are    *)
(* plain strings.  A Python attribute that can hold None is a record       *)
(* [null, v].  A pydantic model instance is its __dict__: a function from  *)
(* attribute names to values.                                              *)
(***************************************************************************)
EXTENDS Integers, Sequences, FiniteSets, TLC

VARIABLES students_db, nuuid, req, resp, nreq, deleted, inserted, workers, serialized

vars == <<nreq, students_db, nuuid, deleted, inserted, req, resp, workers, serialized>>

(* ------------------------------ bounds -------------------------------- *)

\* number of requests served in one behaviour
MaxRequests == 3

\* number of uuid4() values drawn in one behaviour (two at import time)
MaxUuids == 3

\* number of requests with boundary values in one behaviour
MaxValidations == 1

\* number of threadpool workers that run a handler at the same time
NumWorkers == 3

(* --------------------------- Python values ---------------------------- *)

Some(x) == [null |-> FALSE, v |-> x]

NoneStr == [null |-> TRUE, v |-> <<>>]

NoneInt == [null |-> TRUE, v |-> 0]

UpperCase == <<"A","B","C","D","E","F","G","H","I","J","K","L","M",
               "N","O","P","Q","R","S","T","U","V","W","X","Y","Z">>

LowerCase == <<"a","b","c","d","e","f","g","h","i","j","k","l","m",
               "n","o","p","q","r","s","t","u","v","w","x","y","z">>

\* str.lower() on one character
LowerChar(c) ==
    IF \E i \in 1..Len(UpperCase) : UpperCase[i] = c
    THEN LowerCase[CHOOSE i \in 1..Len(UpperCase) : UpperCase[i] = c]
    ELSE c

\* str.lower()
lower(s) == [i \in 1..Len(s) |-> LowerChar(s[i])]

\* the regular expression class \d
IsDigit(c) == c \in {"0","1","2","3","4","5","6","7","8","9"}

\* the pattern ^year \d{1,2}$
MatchesClassPattern(s) ==
    /\ Len(s) \in {6, 7}
    /\ SubSeq(s, 1, 5) = <<"y","e","a","r"," ">>
    /\ \A i \in 6..Len(s) : IsDigit(s[i])

(* ------------------------------- dict --------------------------------- *)
\* A Python dict: the keys in insertion order and the value of each key.

DictHas(d, k) == k \in DOMAIN d.val

DictGet(d, k) == d.val[k]

\* a dict that moves an assigned key to the end
DictSet_moves_to_end(d, k, v) ==
    [keys |-> Append(SelectSeq(d.keys, LAMBDA x : x # k), k),
     val  |-> [x \in (DOMAIN d.val) \cup {k} |-> IF x = k THEN v ELSE d.val[x]]]

\* a dict that puts a new key in front
DictSet_new_key_first(d, k, v) ==
    [keys |-> IF DictHas(d, k) THEN d.keys ELSE <<k>> \o d.keys,
     val  |-> [x \in (DOMAIN d.val) \cup {k} |-> IF x = k THEN v ELSE d.val[x]]]

\* d[k] = v : a new key goes to the end, an existing key keeps its place
DictSet(d, k, v) ==
    [keys |-> IF DictHas(d, k) THEN d.keys ELSE Append(d.keys, k),
     val  |-> [x \in (DOMAIN d.val) \cup {k} |-> IF x = k THEN v ELSE d.val[x]]]

\* a del that removes the last key of the dict (popitem)
DictDel_pops_last(d, k) ==
    [keys |-> SubSeq(d.keys, 1, Len(d.keys) - 1),
     val  |-> [x \in (DOMAIN d.val) \ {d.keys[Len(d.keys)]} |-> d.val[x]]]

\* del d[k]
DictDel(d, k) ==
    [keys |-> SelectSeq(d.keys, LAMBDA x : x # k),
     val  |-> [x \in (DOMAIN d.val) \ {k} |-> d.val[x]]]

\* list(d.values())
DictValues(d) == [i \in 1..Len(d.keys) |-> d.val[d.keys[i]]]

(* ---------------------------- identifiers ----------------------------- *)

SeedKey1 == "550e8400-e29b-41d4-a716-446655440000"

SeedKey2 == "f47ac10b-58cc-4372-a567-0e02b2c3d479"

\* str(uuid.uuid4()): the n-th value drawn.  The program only compares
\* identifiers, so the values are named by the order they are drawn in;
\* two draws never give the same value.
Uuid4 == <<"uuid-1", "uuid-2", "uuid-3", "uuid-4", "uuid-5">>

\* every identifier a client can put in a path or in a body: the two
\* literal keys and the uuids drawn so far (a client cannot guess a
\* uuid that has not been drawn yet)
KnownIds(n) == {SeedKey1, SeedKey2} \cup {Uuid4[i] : i \in 1..n}

(* ------------------------------ models -------------------------------- *)

ValidName(x) == ~x.null /\ Len(x.v) >= 2 /\ Len(x.v) <= 50

ValidAge(x) == ~x.null /\ x.v > 0 /\ x.v < 100

ValidClass(x) == ~x.null /\ MatchesClassPattern(x.v)

\* Student(**body) raises no ValidationError
StudentValidates(body) ==
    /\ {"name", "age", "class_year"} \subseteq DOMAIN body
    /\ ValidName(body.name)
    /\ ValidAge(body.age)
    /\ ValidClass(body.class_year)

\* a Student whose default id is drawn once, when the class is defined
Student_default_drawn_once(body, fresh) ==
    [id         |-> IF "id" \in DOMAIN body THEN body.id ELSE Uuid4[1],
     name       |-> body.name,
     age        |-> body.age,
     class_year |-> body.class_year]

\* Student(**body): the id is the caller's, or else a fresh uuid4
Student(body, fresh) ==
    [id         |-> IF "id" \in DOMAIN body THEN body.id ELSE fresh,
     name       |-> body.name,
     age        |-> body.age,
     class_year |-> body.class_year]

\* UpdateStudent(**body) raises no ValidationError: each field is
\* Optional, so an explicit null passes
UpdateStudentValidates(body) ==
    /\ "name" \in DOMAIN body => (body.name.null \/ ValidName(body.name))
    /\ "age" \in DOMAIN body => (body.age.null \/ ValidAge(body.age))
    /\ "class_" \in DOMAIN body => (body.class_.null \/ ValidClass(body.class_))

\* the fields UpdateStudent declares
UpdateStudentFields == {"name", "age", "class_"}

\* model_dump of a model that keeps the keys it does not declare
model_dump_keeps_extra(body) == body

\* UpdateStudent(**body).model_dump(exclude_unset=True): the declared
\* fields the body sets; any other key of the body is ignored
model_dump_exclude_unset(body) ==
    [k \in (DOMAIN body) \cap UpdateStudentFields |-> body[k]]

\* student.model_copy(update=update_dict): the copy's __dict__ is the
\* original's, updated with update_dict, without validation
model_copy(student, update_dict) ==
    [k \in (DOMAIN student) \cup (DOMAIN update_dict) |->
        IF k \in DOMAIN update_dict THEN update_dict[k] ELSE student[k]]

(* ------------------------------ handlers ------------------------------ *)
\* Each handler gives the dict it leaves and the response it produces.

\* what a handler leaves and answers: the dict, the status code, and the
\* record (body) or the list of records (items) it returns, if any
Result(db, status, body, items) ==
    [db |-> db, status |-> status, body |-> body, items |-> items]

\* a response without a record
NoStudent == <<>>

\* HTTPException(status_code=404)
NotFound(db) == Result(db, 404, NoStudent, <<>>)

get_all_students(db) ==
    Result(db, 200, NoStudent, DictValues(db))

get_student(db, student_id) ==
    IF ~DictHas(db, student_id)
    THEN NotFound(db)
    ELSE Result(db, 200, DictGet(db, student_id), <<>>)

\* s.name.lower() raises AttributeError when s.name is None
get_student_by_name(db, name) ==
    LET values  == DictValues(db)
        results == SelectSeq(values, LAMBDA s : ~s.name.null /\ lower(s.name.v) = lower(name))
    IN  IF \E i \in 1..Len(values) : values[i].name.null
        THEN Result(db, 500, NoStudent, <<>>)
        ELSE IF results = <<>>
        THEN NotFound(db)
        ELSE Result(db, 200, NoStudent, results)

\* a create that returns the record without inserting it
create_student_not_stored(db, student) ==
    Result(db, 201, student, <<>>)

create_student(db, student) ==
    Result(DictSet(db, student.id, student), 201, student, <<>>)

\* an update that copies the first record of the dict instead of the
\* record stored under student_id
update_student_wrong_record(db, student_id, update_body) ==
    IF ~DictHas(db, student_id)
    THEN NotFound(db)
    ELSE LET student         == DictValues(db)[1]
             update_dict     == model_dump_exclude_unset(update_body)
             updated_student == model_copy(student, update_dict)
         IN  Result(DictSet(db, student_id, updated_student), 200, updated_student, <<>>)

update_student(db, student_id, update_body) ==
    IF ~DictHas(db, student_id)
    THEN NotFound(db)
    ELSE LET student         == DictGet(db, student_id)
             update_dict     == model_dump_exclude_unset(update_body)
             updated_student == model_copy(student, update_dict)
         IN  Result(DictSet(db, student_id, updated_student), 200, updated_student, <<>>)

\* a delete that answers 204 without removing the record
delete_student_not_removed(db, student_id) ==
    IF ~DictHas(db, student_id)
    THEN NotFound(db)
    ELSE Result(db, 204, NoStudent, <<>>)

delete_student(db, student_id) ==
    IF ~DictHas(db, student_id)
    THEN NotFound(db)
    ELSE Result(DictDel(db, student_id), 204, NoStudent, <<>>)

(* ------------------------------ requests ------------------------------ *)

Str_John == <<"J","o","h","n">>

Str_Jane == <<"J","a","n","e">>

Str_JANE == <<"J","A","N","E">>

Str_jane == <<"j","a","n","e">>

Str_Jo == <<"J","o">>

Str_J == <<"J">>

Str_year12 == <<"y","e","a","r"," ","1","2">>

Str_year11 == <<"y","e","a","r"," ","1","1">>

Str_year5 == <<"y","e","a","r"," ","5">>

Str_year == <<"y","e","a","r">>

\* a JSON object either lacks the key k or gives it one of the values vals
Optional(k, vals) == {<<>>} \cup {k :> x : x \in vals}

\* a JSON object gives the key k one of the values vals
Required(k, vals) == {k :> x : x \in vals}

\* bodies of POST /students: the three required fields, each valid or
\* not, at most one of them invalid, with or without an id
CreateBodies(n) ==
    {o \in {i @@ a @@ b @@ c :
                i \in Optional("id", KnownIds(n)),
                a \in Required("name", {Some(Str_JANE), Some(Str_J)}),
                b \in Required("age", {Some(15), Some(100)}),
                c \in Required("class_year", {Some(Str_year11), Some(Str_year)})} :
        (IF o.name = Some(Str_J) THEN 1 ELSE 0)
            + (IF o.age = Some(100) THEN 1 ELSE 0)
            + (IF o.class_year = Some(Str_year) THEN 1 ELSE 0) <= 1}

\* bodies of PATCH /students/{student_id}: any subset of the three patch
\* fields, name possibly null, age possibly out of range; and bodies that
\* also carry an id, alone or with a name
UpdateBodies ==
    {o \in {i @@ a @@ b @@ c :
                i \in Optional("id", {SeedKey2}),
                a \in Optional("name", {NoneStr, Some(Str_jane)}),
                b \in Optional("age", {Some(18), Some(0)}),
                c \in Optional("class_", {Some(Str_year5)})} :
        "id" \in DOMAIN o => DOMAIN o \subseteq {"id", "name"}}

\* values of the query parameter name
SearchNames == {Str_jane, Str_JANE, Str_John, Str_Jo, Str_J}

\* a request without a JSON body
NoBody == <<>>

NoId == "no id"

\* a request: the endpoint, the path parameter, the JSON body and the
\* query parameter name
Request(op, student_id, body, name) ==
    [op |-> op, student_id |-> student_id, body |-> body, name |-> name]

Response(r) == [status |-> r.status, body |-> r.body, items |-> r.items]

\* the framework's answer to a request that fails validation: the
\* handler is not called
UnprocessableEntity(db) == Result(db, 422, NoStudent, <<>>)

(* ----------------------------- endpoints ------------------------------ *)
\* An endpoint is the validation its signature declares, then its handler.

\* GET /students/search/by-name : name: str = Query(..., min_length=2)
get_students_search_by_name(db, name) ==
    IF Len(name) < 2
    THEN UnprocessableEntity(db)
    ELSE get_student_by_name(db, name)

\* POST /students : student: Student
post_students(db, body, fresh) ==
    IF ~StudentValidates(body)
    THEN UnprocessableEntity(db)
    ELSE create_student(db, Student(body, fresh))

\* a PATCH that validates the body only after the handler has written
patch_students_validates_late(db, student_id, body) ==
    LET r == update_student(db, student_id, body)
    IN  IF ~UpdateStudentValidates(body)
        THEN UnprocessableEntity(r.db)
        ELSE r

\* a PATCH that looks the id up before it validates the body
patch_students_presence_first(db, student_id, body) ==
    IF ~DictHas(db, student_id)
    THEN NotFound(db)
    ELSE IF ~UpdateStudentValidates(body)
    THEN UnprocessableEntity(db)
    ELSE update_student(db, student_id, body)

\* PATCH /students/{student_id} : update_data: UpdateStudent
patch_students(db, student_id, body) ==
    IF ~UpdateStudentValidates(body)
    THEN UnprocessableEntity(db)
    ELSE update_student(db, student_id, body)

(* ------------------------------- state -------------------------------- *)
\* students_db, and nuuid, the number of uuid4 values drawn so far.
\* History: req and resp, the last request and its response; nreq, the
\* number of requests served; deleted, the keys removed by DELETE and
\* not inserted since; inserted, the present keys in the order in which
\* each last went from absent to present.
\* workers, the handlers running in threadpool threads, each with its
\* position and local variables (none when requests are served one by
\* one); serialized, whether a handler runs to completion before another
\* starts.

\* the module-level students_db: both records are built without an id,
\* so each draws its own uuid4
Init ==
    /\ students_db =
         [keys |-> <<SeedKey1, SeedKey2>>,
          val  |-> (SeedKey1 :> Student([name |-> Some(Str_John), age |-> Some(17),
                                         class_year |-> Some(Str_year12)], Uuid4[1])
                 @@ SeedKey2 :> Student([name |-> Some(Str_Jane), age |-> Some(16),
                                         class_year |-> Some(Str_year11)], Uuid4[2]))]
    /\ nuuid = 2
    /\ req = Request("none", NoId, NoBody, <<>>)
    /\ resp = [status |-> 0, body |-> NoStudent, items |-> <<>>]
    /\ nreq = 0
    /\ deleted = {}
    /\ inserted = <<SeedKey1, SeedKey2>>
    /\ workers = <<>>
    /\ serialized = TRUE

\* the request rq was answered with r
Served(rq, r) ==
    /\ nreq < MaxRequests
    /\ req' = rq
    /\ resp' = Response(r)
    /\ students_db' = r.db
    /\ nreq' = nreq + 1
    /\ deleted' = (deleted \cup ((DOMAIN students_db.val) \ (DOMAIN r.db.val)))
                      \ (DOMAIN r.db.val)
    /\ inserted' =
         LET kept == SelectSeq(inserted, LAMBDA k : k \in DOMAIN r.db.val)
             new  == (DOMAIN r.db.val) \ (DOMAIN students_db.val)
         IN  IF new = {} THEN kept ELSE Append(kept, CHOOSE k \in new : TRUE)
    /\ UNCHANGED <<workers, serialized>>

\* GET /students
ListAll ==
    /\ Served(Request("list", NoId, NoBody, <<>>), get_all_students(students_db))
    /\ UNCHANGED nuuid

\* GET /students/{student_id}
GetById ==
    /\ \E student_id \in KnownIds(nuuid) :
         Served(Request("get", student_id, NoBody, <<>>), get_student(students_db, student_id))
    /\ UNCHANGED nuuid

\* GET /students/search/by-name?name=...
SearchByName ==
    /\ \E name \in SearchNames :
         Served(Request("search", NoId, NoBody, name), get_students_search_by_name(students_db, name))
    /\ UNCHANGED nuuid

\* POST /students with an id in the body
CreateWithId ==
    /\ \E body \in CreateBodies(nuuid) :
         /\ "id" \in DOMAIN body
         /\ Served(Request("create", NoId, body, <<>>), post_students(students_db, body, NoId))
    /\ UNCHANGED nuuid

\* POST /students without an id: the default factory draws a uuid4
CreateWithoutId ==
    /\ nuuid < MaxUuids
    /\ \E body \in CreateBodies(nuuid) :
         /\ "id" \notin DOMAIN body
         /\ Served(Request("create", NoId, body, <<>>),
                   post_students(students_db, body, Uuid4[nuuid + 1]))
    /\ nuuid' = nuuid + 1

\* PATCH /students/{student_id}
Update ==
    /\ \E student_id \in KnownIds(nuuid), body \in UpdateBodies :
         Served(Request("update", student_id, body, <<>>),
                patch_students(students_db, student_id, body))
    /\ UNCHANGED nuuid

\* DELETE /students/{student_id}
Delete ==
    /\ \E student_id \in KnownIds(nuuid) :
         Served(Request("delete", student_id, NoBody, <<>>), delete_student(students_db, student_id))
    /\ UNCHANGED nuuid

Next ==
    \/ ListAll
    \/ GetById
    \/ SearchByName
    \/ CreateWithId
    \/ CreateWithoutId
    \/ Update
    \/ Delete

Spec == Init /\ [][Next]_vars

TypeOK ==
    /\ nreq \in 0..MaxRequests
    /\ nuuid \in 2..MaxUuids
    /\ DOMAIN students_db.val \subseteq KnownIds(nuuid)
    /\ {students_db.keys[i] : i \in 1..Len(students_db.keys)} = DOMAIN students_db.val
    /\ Len(students_db.keys) = Cardinality(DOMAIN students_db.val)
    /\ deleted \cap DOMAIN students_db.val = {}

(* ------------------------- boundary requests -------------------------- *)
\* The same endpoints on the initial store, with field values at and
\* around each limit.

\* a string of n characters
StrOfLen(n) == [i \in 1..n |-> "a"]

Str_year123 == <<"y","e","a","r"," ","1","2","3">>

BoundaryNames == {Some(StrOfLen(1)), Some(StrOfLen(2)), Some(StrOfLen(50)), Some(StrOfLen(51))}

BoundaryAges == {Some(0), Some(1), Some(99), Some(100)}

BoundaryClasses == {Some(Str_year5), Some(Str_year12), Some(Str_year), Some(Str_year123)}

\* bodies of POST /students with boundary values
BoundaryCreateBodies ==
    {a @@ b @@ c :
        a \in Required("name", BoundaryNames),
        b \in Required("age", BoundaryAges),
        c \in Required("class_year", BoundaryClasses)}

\* bodies of PATCH /students/{student_id} with boundary values or null
BoundaryUpdateBodies ==
    {a @@ b @@ c :
        a \in Optional("name", BoundaryNames \cup {NoneStr}),
        b \in Optional("age", BoundaryAges \cup {NoneInt}),
        c \in Optional("class_", BoundaryClasses \cup {NoneStr})}

\* POST /students with boundary values
ValidateCreate ==
    /\ nreq < MaxValidations
    /\ nuuid < MaxUuids
    /\ \E body \in BoundaryCreateBodies :
         Served(Request("create", NoId, body, <<>>),
                post_students(students_db, body, Uuid4[nuuid + 1]))
    /\ nuuid' = nuuid + 1

\* PATCH /students/{student_id} with boundary values
ValidateUpdate ==
    /\ nreq < MaxValidations
    /\ \E student_id \in KnownIds(nuuid), body \in BoundaryUpdateBodies :
         Served(Request("update", student_id, body, <<>>),
                patch_students(students_db, student_id, body))
    /\ UNCHANGED nuuid

NextValidate == ValidateCreate \/ ValidateUpdate

SpecValidate == Init /\ [][NextValidate]_vars

(* ------------------------- concurrent handlers ------------------------ *)
\* The handlers are plain functions, which the framework runs in
\* threadpool threads.  A worker runs update_student or delete_student
\* one statement that touches students_db at a time; the handlers take
\* no lock.

\* the requests the workers serve: their bodies have passed validation
WorkerRequests ==
    {[op |-> "update", student_id |-> k, body |-> b] :
        k \in {SeedKey1, SeedKey2},
        b \in {[name |-> Some(Str_jane)], [age |-> Some(18)]}}
    \cup {[op |-> "delete", student_id |-> k, body |-> NoBody] : k \in {SeedKey1, SeedKey2}}

\* a worker about to run the first statement of its handler
WorkerStart(rq) ==
    [op |-> rq.op, student_id |-> rq.student_id, body |-> rq.body,
     pc |-> "check", student |-> NoStudent, status |-> 0]

InitWorkers ==
    /\ students_db =
         [keys |-> <<SeedKey1, SeedKey2>>,
          val  |-> (SeedKey1 :> Student([name |-> Some(Str_John), age |-> Some(17),
                                         class_year |-> Some(Str_year12)], Uuid4[1])
                 @@ SeedKey2 :> Student([name |-> Some(Str_Jane), age |-> Some(16),
                                         class_year |-> Some(Str_year11)], Uuid4[2]))]
    /\ nuuid = 2
    /\ req = Request("none", NoId, NoBody, <<>>)
    /\ resp = [status |-> 0, body |-> NoStudent, items |-> <<>>]
    /\ nreq = 0
    /\ deleted = {}
    /\ inserted = <<SeedKey1, SeedKey2>>
    /\ workers \in [1..NumWorkers -> {WorkerStart(rq) : rq \in WorkerRequests}]
    /\ serialized \in BOOLEAN

\* worker w may run its next statement: when handlers are serialized,
\* only if no other worker is inside its handler
MayRun(w, op, pc) ==
    /\ workers[w].op = op
    /\ workers[w].pc = pc
    /\ serialized =>
          \A v \in (DOMAIN workers) \ {w} : workers[v].pc \in {"check", "done"}

\* worker w has run a statement: its new position, local and status
WorkerStep(w, db, pc, student, status) ==
    /\ students_db' = db
    /\ workers' = [workers EXCEPT ![w].pc = pc, ![w].student = student, ![w].status = status]
    /\ UNCHANGED <<nuuid, req, resp, nreq, deleted, inserted, serialized>>

\* update_student: if student_id not in students_db: raise HTTPException
UpdateCheck(w) ==
    /\ MayRun(w, "update", "check")
    /\ IF ~DictHas(students_db, workers[w].student_id)
       THEN WorkerStep(w, students_db, "done", NoStudent, 404)
       ELSE WorkerStep(w, students_db, "read", NoStudent, 0)

\* update_student: student = students_db[student_id]  (KeyError if gone)
UpdateRead(w) ==
    /\ MayRun(w, "update", "read")
    /\ IF ~DictHas(students_db, workers[w].student_id)
       THEN WorkerStep(w, students_db, "done", NoStudent, 500)
       ELSE WorkerStep(w, students_db, "write",
                       DictGet(students_db, workers[w].student_id), 0)

\* update_student: the copy, then students_db[student_id] = updated_student
UpdateWrite(w) ==
    /\ MayRun(w, "update", "write")
    /\ LET update_dict     == model_dump_exclude_unset(workers[w].body)
           updated_student == model_copy(workers[w].student, update_dict)
       IN  WorkerStep(w, DictSet(students_db, workers[w].student_id, updated_student),
                      "done", updated_student, 200)

\* delete_student: if student_id not in students_db: raise HTTPException
DeleteCheck(w) ==
    /\ MayRun(w, "delete", "check")
    /\ IF ~DictHas(students_db, workers[w].student_id)
       THEN WorkerStep(w, students_db, "done", NoStudent, 404)
       ELSE WorkerStep(w, students_db, "del", NoStudent, 0)

\* a del statement that leaves the record in place
DeleteDel_keeps_record(w) ==
    /\ MayRun(w, "delete", "del")
    /\ IF ~DictHas(students_db, workers[w].student_id)
       THEN WorkerStep(w, students_db, "done", NoStudent, 500)
       ELSE WorkerStep(w, students_db, "done", NoStudent, 204)

\* delete_student: del students_db[student_id]  (KeyError if gone)
DeleteDel(w) ==
    /\ MayRun(w, "delete", "del")
    /\ IF ~DictHas(students_db, workers[w].student_id)
       THEN WorkerStep(w, students_db, "done", NoStudent, 500)
       ELSE WorkerStep(w, DictDel(students_db, workers[w].student_id), "done", NoStudent, 204)

NextWorkers ==
    \/ \E w \in DOMAIN workers : UpdateCheck(w)
    \/ \E w \in DOMAIN workers : UpdateRead(w)
    \/ \E w \in DOMAIN workers : UpdateWrite(w)
    \/ \E w \in DOMAIN workers : DeleteCheck(w)
    \/ \E w \in DOMAIN workers : DeleteDel(w)

SpecWorkers == InitWorkers /\ [][NextWorkers]_vars

(* ------------------------------- claims ------------------------------- *)

Keys == DOMAIN students_db.val

\* the record field a key of the PATCH body is meant for
PatchKey(field) == IF field = "class_year" THEN "class_" ELSE field

UpdateOk == req.op = "update" /\ resp.status = 200

\* C1: every stored record has a name of length 2..50, an age with
\* 0 < age < 100 and a class_year of the form 'year ' plus 1 or 2 digits,
\* in every state reachable by requests that pass validation (a PATCH
\* that sets a field to null included).
C1_StoredRecordsValid ==
    \A k \in Keys :
        /\ ValidName(students_db.val[k].name)
        /\ ValidAge(students_db.val[k].age)
        /\ ValidClass(students_db.val[k].class_year)

\* C2: after a successful update, each of name, age and class_year that
\* the patch carries (class_year under the key class_) has the patch
\* value in the stored record, and the returned record is the stored one.
C2_UpdateAppliesPatch ==
    UpdateOk =>
        LET stored == students_db.val[req.student_id]
        IN  /\ \A f \in {"name", "age", "class_year"} :
                  PatchKey(f) \in DOMAIN req.body => stored[f] = req.body[PatchKey(f)]
            /\ resp.body = stored

\* C3: a successful update leaves every field that the patch does not
\* carry as it was; with an empty patch the stored record is unchanged
\* and is the record returned.
C3_UpdateKeepsAbsentFields ==
    [][UpdateOk' =>
          LET old == students_db.val[req'.student_id]
              new == students_db'.val[req'.student_id]
          IN  /\ \A f \in {"id", "name", "age", "class_year"} :
                    PatchKey(f) \notin DOMAIN req'.body => new[f] = old[f]
              /\ DOMAIN req'.body = {} => (new = old /\ resp'.body = old)]_vars

\* update(existing_id, {age: 18}) has set age and kept the seeded name
C3_Witness ==
    /\ UpdateOk
    /\ DOMAIN req.body = {"age"}
    /\ req.student_id = SeedKey1
    /\ students_db.val[SeedKey1].age = Some(18)
    /\ students_db.val[SeedKey1].name = Some(Str_John)

\* C4: a request answered with an error (422 validation, 404 not found)
\* leaves the store exactly as it was.
C4_ErrorLeavesStore ==
    [][resp'.status >= 400 => students_db' = students_db]_vars

\* a PATCH of a present id was rejected for an invalid field
C4_Witness ==
    /\ req.op = "update"
    /\ resp.status = 422
    /\ req.student_id \in Keys
    /\ "name" \in DOMAIN req.body

\* C5: no two stored records have the same id field.
C5_IdsUnique ==
    \A k1 \in Keys, k2 \in Keys :
        students_db.val[k1].id = students_db.val[k2].id => k1 = k2

\* C6: get_by_id answers with the record stored under the id when it is
\* present, and with NotFound otherwise; the id field of the record it
\* returns is the requested id.
C6_GetReturnsRequestedId ==
    req.op = "get" =>
        IF req.student_id \in Keys
        THEN /\ resp.status = 200
             /\ resp.body = students_db.val[req.student_id]
             /\ resp.body.id = req.student_id
        ELSE resp.status = 404

\* C7: a successful update leaves the id field of the record as it was,
\* whatever the body carries.
C7_UpdateKeepsId ==
    [][UpdateOk' =>
          students_db'.val[req'.student_id].id = students_db.val[req'.student_id].id]_vars

\* an update whose body carried another id went through
C7_Witness ==
    /\ UpdateOk
    /\ "id" \in DOMAIN req.body
    /\ req.body.id # students_db.val[req.student_id].id

\* C8: right after a successful create, get_by_id with the id of the
\* returned record succeeds and gives a record equal to the one returned.
C8_CreateThenGet ==
    (req.op = "create" /\ resp.status = 201) =>
        Response(get_student(students_db, resp.body.id))
            = [status |-> 200, body |-> resp.body, items |-> <<>>]

\* a create with a caller-supplied id went through
C8_Witness ==
    /\ req.op = "create"
    /\ resp.status = 201
    /\ "id" \in DOMAIN req.body

\* a successful delete removes exactly the record it names, and a delete
\* of an absent id is NotFound
DeleteRemovesExactly ==
    req'.op = "delete" =>
        IF req'.student_id \in Keys
        THEN /\ resp'.status = 204
             /\ DOMAIN students_db'.val = Keys \ {req'.student_id}
             /\ \A k \in Keys \ {req'.student_id} : students_db'.val[k] = students_db.val[k]
        ELSE resp'.status = 404

\* a deleted id comes back only by a create that inserts it
DeletedUntilCreate ==
    \A k \in deleted :
        k \in DOMAIN students_db'.val =>
            (req'.op = "create" /\ resp'.status = 201 /\ resp'.body.id = k)

\* C9 as stated: delete removes exactly the named record; from then on
\* get_by_id, update and delete on that id are NotFound until a create
\* inserts it again; delete on an absent id is NotFound.
C9_DeletedIsNotFound ==
    [][/\ DeleteRemovesExactly
       /\ DeletedUntilCreate
       /\ (req'.op \in {"get", "update", "delete"} /\ req'.student_id \in deleted)
             => resp'.status = 404]_vars

\* C9 amended: as C9, but an update on the deleted id whose body fails
\* validation is answered with the validation error instead.
C9_DeletedIsNotFoundOrInvalid ==
    [][/\ DeleteRemovesExactly
       /\ DeletedUntilCreate
       /\ (req'.op \in {"get", "delete"} /\ req'.student_id \in deleted)
             => resp'.status = 404
       /\ (req'.op = "update" /\ req'.student_id \in deleted)
             => resp'.status = IF UpdateStudentValidates(req'.body) THEN 404 ELSE 422]_vars

\* a valid update of a deleted id was answered NotFound
C9_Witness ==
    /\ req.op = "update"
    /\ req.student_id \in deleted
    /\ resp.status = 404
    /\ DOMAIN req.body = {"age"}

\* the two strings are equal when letter case is ignored
EqualIgnoringCase(a, b) ==
    /\ Len(a) = Len(b)
    /\ \A i \in 1..Len(a) : LowerChar(a[i]) = LowerChar(b[i])

\* the keys of the records whose name is the query, ignoring case
Matching(query) ==
    {k \in Keys : /\ ~students_db.val[k].name.null
                  /\ EqualIgnoringCase(students_db.val[k].name.v, query)}

\* C10: for a query of length >= 2, search_by_name returns exactly the
\* stored records whose whole name equals the query ignoring case, and
\* is NotFound exactly when there are none; queries that differ only in
\* case get the same answer; a shorter query is a validation failure.
C10_SearchByName ==
    req.op = "search" =>
        IF Len(req.name) < 2
        THEN resp.status = 422
        ELSE /\ IF Matching(req.name) = {}
                THEN resp.status = 404
                ELSE /\ resp.status = 200
                     /\ Len(resp.items) = Cardinality(Matching(req.name))
                     /\ {resp.items[i] : i \in 1..Len(resp.items)}
                            = {students_db.val[k] : k \in Matching(req.name)}
             /\ \A other \in SearchNames :
                    EqualIgnoringCase(other, req.name) =>
                        Response(get_students_search_by_name(students_db, other)) = resp

\* the stored records in the order in which their keys were inserted
InInsertionOrder == [i \in 1..Len(inserted) |-> students_db.val[inserted[i]]]

\* C11: list_all always succeeds and returns every stored record exactly
\* once, ordered by when its key was inserted: an update does not move a
\* record, a delete removes one without reordering the rest, a record
\* created after a delete of the same id is last; on an empty store the
\* list is empty.
C11_ListInInsertionOrder ==
    /\ Len(inserted) = Cardinality(Keys)
    /\ {inserted[i] : i \in 1..Len(inserted)} = Keys
    /\ Response(get_all_students(students_db))
           = [status |-> 200, body |-> NoStudent, items |-> InInsertionOrder]
    /\ req.op = "list" => resp.status = 200 /\ resp.items = InInsertionOrder

\* the first seeded key was deleted and created again, and the list then
\* shows its record after the second seeded record
C11_Witness ==
    /\ req.op = "list"
    /\ Len(resp.items) = 2
    /\ inserted = <<SeedKey2, SeedKey1>>
    /\ resp.items[2].id = SeedKey1

\* the only moves of a key between Absent and Present: a successful
\* create makes it Present, a successful delete makes it Absent, a
\* successful update keeps it Present, a failed request moves nothing
OnlyStateMachineMoves ==
    /\ \A k \in (DOMAIN students_db'.val) \ Keys :
           req'.op = "create" /\ resp'.status = 201 /\ resp'.body.id = k
    /\ \A k \in Keys \ (DOMAIN students_db'.val) :
           req'.op = "delete" /\ resp'.status = 204 /\ req'.student_id = k
    /\ (req'.op = "create" /\ resp'.status = 201) => resp'.body.id \in DOMAIN students_db'.val
    /\ (req'.op = "delete" /\ resp'.status = 204) => req'.student_id \in Keys
    /\ UpdateOk' => (req'.student_id \in Keys /\ req'.student_id \in DOMAIN students_db'.val)
    /\ resp'.status >= 400 => DOMAIN students_db'.val = Keys

\* C12: each id is Present or Absent and moves only by create
\* (Absent to Present), update (Present to Present) and delete (Present
\* to Absent); no successful create acts on an id that is already
\* Present; a failed operation changes no id's state.
C12_StateMachine ==
    [][/\ OnlyStateMachineMoves
       /\ (req'.op = "create" /\ resp'.status = 201) => resp'.body.id \notin Keys]_vars

\* the limit of each field: a name of 2..50 characters, an age from 1
\* to 99, a class year 'year ' followed by 1 or 2 digits
WithinLimit(field, x) ==
    /\ ~x.null
    /\ CASE field = "name" -> Len(x.v) \in 2..50
         [] field = "age" -> x.v \in 1..99
         [] OTHER -> /\ Len(x.v) \in 6..7
                     /\ \A i \in 1..5 : x.v[i] = <<"y","e","a","r"," ">>[i]
                     /\ \A i \in 6..Len(x.v) :
                            x.v[i] \in {"0","1","2","3","4","5","6","7","8","9"}

\* C13: create accepts a candidate exactly when name, age and class_year
\* are within their limits (age 0 and 100, a 1-character name, 'year' and
\* 'year 123' rejected; age 1 and 99, a 2-character name, 'year 5'
\* accepted); update applies the same limits to each field present in
\* its patch.
C13_ValidationLimits ==
    /\ req.op = "create" =>
           /\ resp.status \in {201, 422}
           /\ resp.status = 201 <=>
                  \A f \in {"name", "age", "class_year"} : WithinLimit(f, req.body[f])
    /\ req.op = "update" =>
           (resp.status # 422 <=>
                \A f \in {"name", "age", "class_year"} :
                    PatchKey(f) \in DOMAIN req.body => WithinLimit(f, req.body[PatchKey(f)]))

CreateOk == req.op = "create" /\ resp.status = 201

\* C14: a successful create without an id assigns an id that is not a
\* key of the store at that moment, stores the candidate's name, age and
\* class_year unchanged under it, adds exactly one record and leaves
\* every record already stored unchanged.
C14_CreateWithoutId ==
    [][(CreateOk' /\ "id" \notin DOMAIN req'.body) =>
          LET id == resp'.body.id
          IN  /\ id \notin Keys
              /\ id \in DOMAIN students_db'.val
              /\ \A f \in {"name", "age", "class_year"} :
                     students_db'.val[id][f] = req'.body[f]
              /\ students_db'.val[id].id = id
              /\ Cardinality(DOMAIN students_db'.val) = Cardinality(Keys) + 1
              /\ \A k \in Keys : students_db'.val[k] = students_db.val[k]]_vars

\* a create without an id went through when the client had already
\* created a record under the generated id of a seeded record
C14_Witness ==
    /\ CreateOk
    /\ "id" \notin DOMAIN req.body
    /\ Cardinality(Keys) = 4
    /\ Uuid4[1] \in Keys

\* the patch has a non-null field outside its limit
PatchViolatesLimit(body) ==
    \E f \in {"name", "age", "class_year"} :
        /\ PatchKey(f) \in DOMAIN body
        /\ ~body[PatchKey(f)].null
        /\ ~WithinLimit(f, body[PatchKey(f)])

\* C15 as stated: update on an absent id is NotFound whatever the patch,
\* the presence check coming before patch validation; ValidationError
\* is reported only for a present id.
C15_PresenceBeforeValidation ==
    req.op = "update" =>
        /\ req.student_id \notin Keys => resp.status = 404
        /\ resp.status = 422 => req.student_id \in Keys

\* C15 amended: patch validation comes before the presence check, so an
\* update whose patch violates a limit is a ValidationError for a present
\* and for an absent id alike, and an update on an absent id is NotFound
\* exactly when its patch passes validation.
C15_ValidationBeforePresence ==
    req.op = "update" =>
        resp.status = IF PatchViolatesLimit(req.body) THEN 422
                      ELSE IF req.student_id \notin Keys THEN 404
                      ELSE 200

\* an update with an out-of-range age on an absent id was answered with
\* the validation error
C15_Witness ==
    /\ req.op = "update"
    /\ req.student_id \notin Keys
    /\ "age" \in DOMAIN req.body
    /\ req.body.age = Some(0)
    /\ resp.status = 422

\* list_all in the state before and after the step
ListBefore == get_all_students(students_db).items

ListAfter == get_all_students(students_db').items

\* C16: a valid create whose caller-supplied id is already a key
\* succeeds and replaces the record under that id with the candidate:
\* the number of records and every other record are unchanged, the
\* previous record is no longer returned by get_by_id or list_all, and
\* the new record has the list_all position of the one it replaced.
C16_CreateOverwrites ==
    [][(/\ req'.op = "create"
        /\ "id" \in DOMAIN req'.body
        /\ req'.body.id \in Keys
        /\ \A f \in {"name", "age", "class_year"} : WithinLimit(f, req'.body[f])) =>
          LET id  == req'.body.id
              new == [f \in {"id", "name", "age", "class_year"} |-> req'.body[f]]
          IN  /\ resp'.status = 201
              /\ resp'.body = new
              /\ DOMAIN students_db'.val = Keys
              /\ \A k \in Keys \ {id} : students_db'.val[k] = students_db.val[k]
              /\ Response(get_student(students_db', id))
                     = [status |-> 200, body |-> new, items |-> <<>>]
              /\ Len(ListAfter) = Len(ListBefore)
              /\ \A i \in 1..Len(ListBefore) :
                     ListAfter[i] = IF inserted[i] = id THEN new ELSE ListBefore[i]]_vars

\* a create replaced the record of the first seeded key while two
\* records were stored
C16_Witness ==
    /\ CreateOk
    /\ "id" \in DOMAIN req.body
    /\ req.body.id = SeedKey1
    /\ inserted = <<SeedKey1, SeedKey2>>
    /\ students_db.val[SeedKey1].name = Some(Str_JANE)

\* the keys the request of the step names: the path parameter of
\* update and delete, the id of the record a create returns
NamedKeys ==
    CASE req'.op \in {"update", "delete"} -> {req'.student_id}
      [] req'.op = "create" /\ resp'.status = 201 -> {resp'.body.id}
      [] OTHER -> {}

\* C17: create, update and delete on id X leave the record under every
\* other key unchanged and add or remove no other key; list_all,
\* get_by_id and search_by_name leave the whole store unchanged.
C17_TouchesOnlyNamedKey ==
    [][/\ \A k \in (Keys \cup DOMAIN students_db'.val) \ NamedKeys :
              /\ k \in Keys
              /\ k \in DOMAIN students_db'.val
              /\ students_db'.val[k] = students_db.val[k]
       /\ req'.op \in {"list", "get", "search"} => students_db' = students_db]_vars

\* a delete removed the first of three stored records
C17_Witness ==
    /\ req.op = "delete"
    /\ resp.status = 204
    /\ req.student_id = SeedKey1
    /\ Cardinality(Keys) = 2

\* worker w has answered its request with the status
Answered(w, op, status) ==
    /\ workers[w].op = op
    /\ workers[w].pc = "done"
    /\ workers[w].status = status

\* two updates of one id, one of the name and one of the age, have both
\* succeeded and the stored record lacks one of the two changes
LostUpdate ==
    \E w1 \in DOMAIN workers, w2 \in DOMAIN workers :
        /\ Answered(w1, "update", 200)
        /\ Answered(w2, "update", 200)
        /\ workers[w1].student_id = workers[w2].student_id
        /\ DOMAIN workers[w1].body = {"name"}
        /\ DOMAIN workers[w2].body = {"age"}
        /\ workers[w1].student_id \in Keys
        /\ \/ students_db.val[workers[w1].student_id].name # workers[w1].body.name
           \/ students_db.val[workers[w1].student_id].age # workers[w2].body.age

\* a delete of an id has succeeded, an update of the same id has
\* succeeded too, and the record is stored
WrittenAfterDelete ==
    \E d \in DOMAIN workers, u \in DOMAIN workers :
        /\ Answered(d, "delete", 204)
        /\ Answered(u, "update", 200)
        /\ workers[d].student_id = workers[u].student_id
        /\ workers[d].student_id \in Keys

\* C18: the handlers take no lock; interleaved statement by statement,
\* two updates of one id with disjoint fields can lose one change and an
\* update that passed its presence check can write back a record that a
\* delete has removed; when each handler runs to completion before the
\* next starts, neither state is reachable.
C18_SerializedIsSafe ==
    serialized => (~LostUpdate /\ ~WrittenAfterDelete)

\* without serialization both bad states have been reached: a change is
\* lost and a deleted record is back
C18_Witness ==
    /\ ~serialized
    /\ LostUpdate
    /\ WrittenAfterDelete

====
